---- MODULE Spec2Model ----
(***************************************************************************)
(* State-machine model of src/src/app/page.tsx: the Home component of the  *)
(* tetris block randomizer.  The state is the component's React state      *)
(* (blocks, savedConfig, selected, hasStarted, isAnimating), the closure   *)
(* of the animation in flight (animateSelection / animate), the content of *)
(* localStorage under STORAGE_KEY, and the component's lifecycle.          *)
(*                                                                         *)
(* Category ids are the positions 1..NumBlocks of DEFAULT_INITIAL; the     *)
(* lists blocks and savedConfig always hold the built-in ids in built-in   *)
(* order (they are only ever produced by mapping DEFAULT_INITIAL or each   *)
(* other).  Counts are integers: fractional input is outside the model.    *)
(* Time is counted in units such that the animation lasts Duration units.  *)
(***************************************************************************)
EXTENDS Integers, Sequences, FiniteSets, TLC

\* Bounds of the model (the program has 8 categories of 6 and 2000 ms).
NumBlocks == 2
DefaultInitial == 1
Duration == 2
\* The longest persisted array the load is tried on.
MaxStored == 2

Ids == 1..NumBlocks
\* An id that is in no built-in category ("stale" in persisted data).
StaleId == NumBlocks + 1

Max(a, b) == IF a >= b THEN a ELSE b
Min(a, b) == IF a <= b THEN a ELSE b
MinOf(S) == CHOOSE x \in S : \A y \in S : x <= y

\* DEFAULT_INITIAL: the built-in list, every category with the same count.
DEFAULT_INITIAL == [i \in Ids |-> [id |-> i, initial |-> DefaultInitial]]

(***************************************************************************)
(* JavaScript values as they occur in persisted data and in the editor's   *)
(* text field, with Number() and the `Number(x) || d` idiom.               *)
(***************************************************************************)
JsNumber(n) == [t |-> "number", n |-> n]
JsNumericString(n) == [t |-> "numeric-string", n |-> n]
JsText == [t |-> "text", n |-> 0]
JsUndefined == [t |-> "undefined", n |-> 0]
JsNull == [t |-> "null", n |-> 0]

\* Number(v) is NaN for a non-numeric string and for undefined.
IsNaN(v) == v.t \in {"text", "undefined"}
\* Number(v) otherwise: null is 0, a numeric string is its number.
ToNumber(v) == IF v.t = "null" THEN 0 ELSE v.n
\* Number(v) || d : NaN and 0 are falsy.
NumberOr(v, d) == IF IsNaN(v) \/ ToNumber(v) = 0 THEN d ELSE ToNumber(v)

\* The numbers a user can type or a record can hold, within the bounds.
Numbers == (0 - 1) .. DefaultInitial
JsValues ==
  {JsNumber(n) : n \in Numbers} \cup {JsNumericString(DefaultInitial + 1)}
    \cup {JsText, JsUndefined, JsNull}
\* What the editor's text field can hold: a numeral or anything else.
TypedValues == {JsNumericString(n) : n \in Numbers} \cup {JsText}

(***************************************************************************)
(* localStorage content under STORAGE_KEY.                                 *)
(***************************************************************************)
ObjectEntry(id, v) == [kind |-> "object", id |-> id, initial |-> v]
NullEntry == [kind |-> "null", id |-> 0, initial |-> JsUndefined]
PrimitiveEntry == [kind |-> "primitive", id |-> 0, initial |-> JsUndefined]

Absent == [kind |-> "absent", items |-> <<>>]
Malformed == [kind |-> "malformed", items |-> <<>>]
NotArray == [kind |-> "notArray", items |-> <<>>]
StoredArray(items) == [kind |-> "array", items |-> items]

\* Every persisted content within the bounds: nothing, text that does not
\* parse, JSON that is no array, and arrays of objects (built-in or stale
\* id, any value under `initial`), nulls and primitives.
Entries ==
  {ObjectEntry(id, v) : id \in Ids \cup {StaleId}, v \in JsValues}
    \cup {NullEntry, PrimitiveEntry}
StoredRecords ==
  {Absent, Malformed, NotArray}
    \cup {StoredArray(items) :
            items \in UNION {[1..k -> Entries] : k \in 0..MaxStored}}

\* parsed.find((p) => p.id === d.id): index of the first match, 0 if none.
FindIndex(items, id) ==
  LET hits == {k \in 1..Len(items) :
                 items[k].kind = "object" /\ items[k].id = id}
  IN IF hits = {} THEN 0 ELSE MinOf(hits)

\* p.id on a null entry throws; find reaches it unless it matched before.
FindThrows(items, id) ==
  \E k \in 1..Len(items) :
    /\ items[k].kind = "null"
    /\ FindIndex(items, id) = 0 \/ k < FindIndex(items, id)

\* A merge that takes any entry of a built-in id as an override, whatever its
\* count converts to (mutant of MergeEntry).
MergeEntryUnchecked(items, d) ==
  LET k == FindIndex(items, d.id)
  IN IF k = 0 THEN d
     ELSE [id |-> d.id,
           initial |-> IF IsNaN(items[k].initial) THEN 0
                       ELSE ToNumber(items[k].initial)]

\* The merge of lines 34-37 (and 235-238) for one built-in entry d.
MergeEntry(items, d) ==
  LET k == FindIndex(items, d.id)
  IN IF k = 0 THEN d
     ELSE [id |-> d.id, initial |-> NumberOr(items[k].initial, d.initial)]

loadSavedConfig(store) ==
  IF store.kind # "array" THEN DEFAULT_INITIAL
  ELSE IF \E i \in Ids : FindThrows(store.items, DEFAULT_INITIAL[i].id)
       THEN DEFAULT_INITIAL
       ELSE [i \in Ids |-> MergeEntry(store.items, DEFAULT_INITIAL[i])]

\* JSON.stringify(config) as written by saveConfig, as read back by JSON.parse.
Stringify(config) ==
  StoredArray([i \in 1..Len(config) |->
                 ObjectEntry(config[i].id, JsNumber(config[i].initial))])

(***************************************************************************)
(* The pool and the weighted pick.                                         *)
(***************************************************************************)
BlocksOf(config) ==
  [i \in 1..Len(config) |->
     [id |-> config[i].id, count |-> config[i].initial,
      initial |-> config[i].initial]]

RECURSIVE Cum(_, _)
\* cum after the loop of lines 84-90 has added blocks[1..i].count
Cum(pool, i) == IF i = 0 THEN 0 ELSE Cum(pool, i - 1) + pool[i].count

\* blocks.reduce((s, b) => s + b.count, 0)
Total(pool) == Cum(pool, Len(pool))

\* Lines 82-91: the first index with r < cum, else the last index.
PickIndex(pool, r) ==
  LET hits == {i \in 1..Len(pool) : r < Cum(pool, i)}
  IN IF hits = {} THEN Len(pool) ELSE MinOf(hits)

\* An updater that is one position off (mutant of Decrement).
DecrementOffByOne(prev, pickedIndex) ==
  [i \in 1..Len(prev) |->
     IF i = pickedIndex - 1
     THEN [prev[i] EXCEPT !.count = Max(0, prev[i].count - 1)]
     ELSE prev[i]]

\* Lines 96-100: the updater applied to the live list.
Decrement(prev, pickedIndex) ==
  [i \in 1..Len(prev) |->
     IF i = pickedIndex
     THEN [prev[i] EXCEPT !.count = Max(0, prev[i].count - 1)]
     ELSE prev[i]]

\* blocks.filter(b => b.count > 0), as the sequence of their positions.
RECURSIVE Available(_, _)
Available(pool, n) ==
  IF n = 0 THEN <<>>
  ELSE IF pool[n].count > 0
       THEN Append(Available(pool, n - 1), n)
       ELSE Available(pool, n - 1)
AvailableBlocks(pool) == Available(pool, Len(pool))

\* getSingleRemainingBlock: the position of the only available block, or 0.
getSingleRemainingBlock(pool) ==
  IF Len(AvailableBlocks(pool)) = 1 THEN AvailableBlocks(pool)[1] ELSE 0

\* Lines 134-148: the index into availableBlocks (0-based) shown on a tick.
\* progress = elapsed / Duration; progress < 0.7 iff 10 * elapsed < 7 * Duration;
\* eased = 1 - (1 - t)^2 with t = (progress - 0.7) / 0.3 = a / b.
DisplayIndex(frameIndex, elapsed, n) ==
  IF 10 * elapsed < 7 * Duration
  THEN frameIndex % n
  ELSE LET a == 10 * elapsed - 7 * Duration
           b == 3 * Duration
       IN (((b * b) - ((b - a) * (b - a))) * (n - 1)) \div (b * b)

(***************************************************************************)
(* State.                                                                  *)
(***************************************************************************)
VARIABLES
  pc,           \* "constructed" (useState initialisers ran), "mounted", "unmounted"
  storage,      \* localStorage content under STORAGE_KEY
  blocks,       \* useState: the pool, [id, count, initial] per category
  savedConfig,  \* useState: the baseline, [id, initial] per category
  selected,     \* useState: position of the block shown, 0 for null
  hasStarted,   \* useState
  isAnimating,  \* useState
  animation,    \* closure of animateSelection + animationFrameRef
  lastOp,       \* history: the handler that ran last and what it did
  session       \* history: completed draws since the last mount / reset

vars == <<pc, storage, blocks, savedConfig, selected, hasStarted, isAnimating,
          animation, lastOp, session>>

\* No cycle: nothing requested through requestAnimationFrame.
NoAnimation == [status |-> "none", blocks |-> <<>>, frameIndex |-> 0, elapsed |-> 0]

\* What the closure of a cycle reads of its render's blocks: id and count.
Snapshot(pool) ==
  [i \in 1..Len(pool) |-> [id |-> pool[i].id, count |-> pool[i].count]]

\* The handler run and its outcome; for an edit, the id edited and the text
\* the editor held.
Op(op, out) == [op |-> op, out |-> out, id |-> 0, value |-> JsUndefined]
EditOp(id, value) ==
  [op |-> "onSave", out |-> "saved", id |-> id, value |-> value]

FreshSession == [draws |-> 0, edited |-> FALSE]
\* One more completed draw (counted until the first edit of the session).
CountDraw(s) == IF s.edited THEN s ELSE [s EXCEPT !.draws = s.draws + 1]

\* Line 62.
totalRemaining == Total(blocks)

\* The state the useState initialisers of lines 45-61 produce.
Constructed ==
  /\ pc = "constructed"
  /\ blocks = BlocksOf(DEFAULT_INITIAL)
  /\ savedConfig = DEFAULT_INITIAL
  /\ selected = 0
  /\ hasStarted = FALSE
  /\ isAnimating = FALSE
  /\ animation = NoAnimation
  /\ lastOp = Op("init", "init")
  /\ session = FreshSession

\* A first visit: nothing stored yet.
Init == Constructed /\ storage = Absent

(***************************************************************************)
(* What the render of lines 420-486 offers.                                *)
(***************************************************************************)
MulaiRendered == totalRemaining > 0 /\ ~hasStarted
AcakRendered == totalRemaining > 0 /\ hasStarted /\ ~isAnimating
ResetRendered == totalRemaining <= 0 \/ hasStarted

(***************************************************************************)
(* Operations.                                                             *)
(***************************************************************************)
\* The mount effect of lines 206-231.
Mount ==
  /\ pc = "constructed"
  /\ LET cfg == loadSavedConfig(storage)
     IN /\ savedConfig' = cfg
        /\ blocks' = BlocksOf(cfg)
  /\ pc' = "mounted"
  /\ lastOp' = Op("mount", "loaded")
  /\ session' = FreshSession
  /\ UNCHANGED <<storage, selected, hasStarted, isAnimating, animation>>

\* pickAndDecrement called by the render whose blocks are `pool`, drawing r,
\* followed by setSelected(picked): lines 77-103 with 119-122 / 173-176.
PickNow(op, out, pool, r) ==
  LET pickedIndex == PickIndex(pool, r)
  IN /\ blocks' = Decrement(blocks, pickedIndex)
     /\ selected' = pool[pickedIndex].id
     /\ lastOp' = Op(op, out)
     /\ session' = CountDraw(session)

\* animateSelection(2000), lines 112-164, called from handler op.
animateSelection(op) ==
  LET availableBlocks == AvailableBlocks(blocks)
      n == Len(availableBlocks)
  IN IF n = 0
     THEN /\ lastOp' = Op(op, "none")
          /\ UNCHANGED <<blocks, selected, isAnimating, animation, session>>
     ELSE IF n = 1
     THEN /\ \E r \in 0..(Total(blocks) - 1) : PickNow(op, "fast", blocks, r)
          /\ UNCHANGED <<isAnimating, animation>>
     ELSE \* setIsAnimating(true) and the first, synchronous animate()
          /\ isAnimating' = TRUE
          /\ selected' = availableBlocks[DisplayIndex(1, 0, n) + 1]
          /\ animation' = [status |-> "pending", blocks |-> Snapshot(blocks),
                           frameIndex |-> 1, elapsed |-> 0]
          /\ lastOp' = Op(op, "cycling")
          /\ UNCHANGED <<blocks, session>>

\* A guard that forgets the cycle in flight (mutant of DrawRejected).
DrawRejectedOnEmptyPoolOnly == totalRemaining <= 0

\* Lines 168 and 185: if (isAnimating || totalRemaining <= 0) return;
DrawRejected == isAnimating \/ totalRemaining <= 0

\* Lines 167-181.  The early return of line 168 is what a draw request meets
\* during a cycle or on an empty pool, whatever button is rendered.
handleMulai ==
  /\ pc = "mounted"
  /\ IF DrawRejected
     THEN /\ lastOp' = Op("handleMulai", "noop")
          /\ UNCHANGED <<blocks, selected, hasStarted, isAnimating, animation,
                         session>>
     ELSE /\ MulaiRendered
          /\ IF getSingleRemainingBlock(blocks) # 0
             THEN /\ \E r \in 0..(Total(blocks) - 1) :
                       PickNow("handleMulai", "fast", blocks, r)
                  /\ UNCHANGED <<isAnimating, animation>>
             ELSE animateSelection("handleMulai")
          /\ hasStarted' = TRUE
  /\ UNCHANGED <<pc, storage, savedConfig>>

\* Lines 184-187.
handleAcak ==
  /\ pc = "mounted"
  /\ IF DrawRejected
     THEN /\ lastOp' = Op("handleAcak", "noop")
          /\ UNCHANGED <<blocks, selected, isAnimating, animation, session>>
     ELSE /\ AcakRendered
          /\ animateSelection("handleAcak")
  /\ UNCHANGED <<pc, storage, savedConfig, hasStarted>>

\* Time measured from the previous tick instead of the start of the cycle
\* (mutant of ElapsedAt).
ElapsedSinceLastTick(previous, dt) == Min(Duration, dt)

\* Lines 134-135: Date.now() - startTime, dt after a tick that measured
\* `previous`; progress is min(1, elapsed / duration), so elapsed is capped.
ElapsedAt(previous, dt) == Min(Duration, previous + dt)

\* Every tick is at least one time unit after the one before, so a cycle
\* shows at most this many frames before the one that ends it.
MaxFrames == Duration

\* The requestAnimationFrame callback, lines 133-161, dt time units after
\* the previous tick.  pickAndDecrement is the one of the render that
\* started the cycle: it reads that render's blocks (animation.blocks) and
\* its updater runs on the live list.
animate ==
  /\ pc = "mounted"
  /\ animation.status = "pending"
  /\ animation.frameIndex <= MaxFrames
  /\ \E dt \in 1..Duration :
       LET elapsed == ElapsedAt(animation.elapsed, dt)
           frameIndex == animation.frameIndex + 1
           availableBlocks == AvailableBlocks(animation.blocks)
           index == DisplayIndex(frameIndex, elapsed, Len(availableBlocks))
       IN IF elapsed < Duration
          THEN /\ selected' = availableBlocks[index + 1]
               /\ animation' = [animation EXCEPT !.frameIndex = frameIndex,
                                                 !.elapsed = elapsed]
               /\ lastOp' = Op("animate", "tick")
               /\ UNCHANGED <<blocks, isAnimating, session>>
          ELSE /\ IF Total(animation.blocks) <= 0
                  THEN /\ selected' = availableBlocks[index + 1]
                       /\ lastOp' = Op("animate", "none")
                       /\ UNCHANGED <<blocks, session>>
                  ELSE \E r \in 0..(Total(animation.blocks) - 1) :
                         PickNow("animate", "final", animation.blocks, r)
               /\ isAnimating' = FALSE
               /\ animation' = NoAnimation
  /\ UNCHANGED <<pc, storage, savedConfig, hasStarted>>

\* A reset that ignores the saved baseline (mutant of handleResetBlocks).
handleResetBlocksFromDefaults(config) == BlocksOf(DEFAULT_INITIAL)

\* Lines 191-200: the list handleReset passes to setBlocks.
handleResetBlocks(config) ==
  BlocksOf(IF Len(config) # 0 THEN config ELSE DEFAULT_INITIAL)

\* Lines 189-203, behind the buttons of lines 452-457 and 477-486.
handleReset ==
  /\ pc = "mounted"
  /\ ResetRendered
  /\ blocks' = handleResetBlocks(savedConfig)
  /\ selected' = 0
  /\ hasStarted' = FALSE
  /\ lastOp' = Op("handleReset", "reset")
  /\ session' = FreshSession
  /\ UNCHANGED <<pc, storage, savedConfig, isAnimating, animation>>

\* Line 313: const n = Number(value) || 0.
EditorNumber(value) == NumberOr(value, 0)

\* An updater that moves the baseline only (mutant of EditedBlocks).
EditedBlocksInitialOnly(prev, id, newInitial) ==
  [i \in 1..Len(prev) |->
     IF prev[i].id = id
     THEN [prev[i] EXCEPT !.initial = newInitial]
     ELSE prev[i]]

\* Lines 433-439: the updater onSave passes to setBlocks.
EditedBlocks(prev, id, newInitial) ==
  [i \in 1..Len(prev) |->
     IF prev[i].id = id
     THEN [prev[i] EXCEPT !.count = newInitial, !.initial = newInitial]
     ELSE prev[i]]

\* Lines 235-238: the list saveConfig passes to setSavedConfig.
saveConfigMerged(config) ==
  [i \in Ids |-> MergeEntry(Stringify(config).items, DEFAULT_INITIAL[i])]

\* The merged list of saveConfig left standing (mutant of SavedAfterEdit).
SavedAfterEditMerged(updatedSaved) == saveConfigMerged(updatedSaved)

\* savedConfig after the batch of setSavedConfig(merged), line 239, and
\* setSavedConfig(updatedSaved), line 432: the later call stands.
SavedAfterEdit(updatedSaved) == updatedSaved

\* An editor offered at all times (mutant of canEdit).
canEditAlways == TRUE

\* Line 424: canEdit={!hasStarted}; the pencil (line 346) and the editor
\* (line 350) are offered only then.
canEdit == ~hasStarted

\* The editor's save button (lines 312-315) with onSave (lines 425-440):
\* saveConfig writes storage and sets savedConfig to the merged list, then
\* setSavedConfig(updatedSaved) replaces it in the same batch.  Opening the
\* editor, typing and saving are one step: they fit between two renders of
\* Home (a cycle re-renders Home only when the block shown changes).
onSave ==
  /\ pc = "mounted"
  /\ canEdit
  /\ \E id \in Ids, value \in TypedValues :
       LET newInitial == EditorNumber(value)
           updatedSaved ==
             [i \in 1..Len(savedConfig) |->
                IF savedConfig[i].id = id
                THEN [savedConfig[i] EXCEPT !.initial = newInitial]
                ELSE savedConfig[i]]
       IN /\ storage' = Stringify(updatedSaved)
          /\ savedConfig' = SavedAfterEdit(updatedSaved)
          /\ blocks' = EditedBlocks(blocks, id, newInitial)
          /\ lastOp' = EditOp(id, value)
  /\ session' = [draws |-> 0, edited |-> TRUE]
  /\ UNCHANGED <<pc, selected, hasStarted, isAnimating, animation>>

\* The cleanup of lines 65-74: the pending frame is cancelled.
Unmount ==
  /\ pc = "mounted"
  /\ pc' = "unmounted"
  /\ animation' = IF animation.status = "pending"
                  THEN [animation EXCEPT !.status = "cancelled"]
                  ELSE animation
  /\ lastOp' = Op("unmount", "cleanup")
  /\ UNCHANGED <<storage, blocks, savedConfig, selected, hasStarted,
                 isAnimating, session>>

\* The page is opened again: a new component instance over the same storage.
Restart ==
  /\ pc = "unmounted"
  /\ pc' = "constructed"
  /\ blocks' = BlocksOf(DEFAULT_INITIAL)
  /\ savedConfig' = DEFAULT_INITIAL
  /\ selected' = 0
  /\ hasStarted' = FALSE
  /\ isAnimating' = FALSE
  /\ animation' = NoAnimation
  /\ lastOp' = Op("init", "init")
  /\ session' = FreshSession
  /\ UNCHANGED storage

Next ==
  \/ Mount
  \/ handleMulai
  \/ handleAcak
  \/ animate
  \/ handleReset
  \/ onSave
  \/ Unmount
  \/ Restart

Spec == Init /\ [][Next]_vars

(***************************************************************************)
(* loadSavedConfig on every persisted content: the component is            *)
(* constructed over any storage and mounts.                                *)
(***************************************************************************)
InitLoad == Constructed /\ storage \in StoredRecords
NextLoad == Mount
SpecLoad == InitLoad /\ [][NextLoad]_vars

(***************************************************************************)
(* The draws from every configuration the editor can have produced: the    *)
(* editor takes any numeral, here up to DefaultInitial + 1 (Spec types     *)
(* numerals up to DefaultInitial only).  Each category was edited once     *)
(* after the mount and nothing was drawn yet.                              *)
(***************************************************************************)
EditedConfigs ==
  {[i \in Ids |-> [id |-> i, initial |-> f[i]]] :
     f \in [Ids -> (0 - 1) .. (DefaultInitial + 1)]}

InitDraw ==
  /\ pc = "mounted"
  /\ savedConfig \in EditedConfigs
  /\ storage = Stringify(savedConfig)
  /\ blocks = BlocksOf(savedConfig)
  /\ selected = 0
  /\ hasStarted = FALSE
  /\ isAnimating = FALSE
  /\ animation = NoAnimation
  /\ lastOp = Op("onSave", "saved")
  /\ session = [draws |-> 0, edited |-> TRUE]
NextDraw == handleMulai \/ handleAcak \/ animate
SpecDraw == InitDraw /\ [][NextDraw]_vars

(***************************************************************************)
(* One lifetime of the widget from every edited configuration: draws, the  *)
(* ticks of the reveal cycle, resets and the teardown.  The browser runs   *)
(* every callback passed to requestAnimationFrame (lines 130, 156 and 181) *)
(* at a later frame unless cancelAnimationFrame withdrew it, and           *)
(* Date.now() has moved on by then: a pending animate is taken.            *)
(***************************************************************************)
NextCycle == handleMulai \/ handleAcak \/ animate \/ handleReset \/ Unmount
SpecCycle == InitDraw /\ [][NextCycle]_vars /\ WF_vars(animate)

(***************************************************************************)
(* The claims.                                                             *)
(***************************************************************************)
\* A step that completes a draw: pickAndDecrement returned a pick, on the
\* fast path or on the final tick of a cycle.  The pick is selected'.
DrawCompletes == lastOp'.out \in {"fast", "final"}
\* A step in which handleMulai or handleAcak ran.
DrawRequested == lastOp'.op \in {"handleMulai", "handleAcak"}

SumOfInitial(pool) == Total([i \in 1..Len(pool) |-> [count |-> pool[i].initial]])

\* C1: every completed draw lowers the picked category's remainingCount by
\* exactly 1, and afterwards no category's remainingCount is negative.
C1_NoReplacement ==
  [][DrawCompletes =>
       /\ blocks'[selected'].count = blocks[selected'].count - 1
       /\ \A i \in Ids : blocks'[i].count >= 0]_vars

\* The pools pickAndDecrement can next read: the render's blocks when a draw
\* request would be accepted, the cycle's blocks while a tick is pending.
PoolsToDrawFrom ==
  (IF pc = "mounted" /\ ~isAnimating /\ (MulaiRendered \/ AcakRendered)
   THEN {Snapshot(blocks)} ELSE {})
    \cup (IF animation.status = "pending" THEN {animation.blocks} ELSE {})

\* C2: for every pool with totalRemaining > 0 and every r in
\* [0, totalRemaining) the pick is the first category whose cumulative
\* remainingCount exceeds r; the number of r that select a category is its
\* remainingCount; a category with remainingCount 0 is never picked.
C2_WeightedSelection ==
  \A pool \in PoolsToDrawFrom :
    Total(pool) > 0 =>
      /\ \A r \in 0..(Total(pool) - 1) :
           LET i == PickIndex(pool, r)
           IN /\ Cum(pool, i) > r
              /\ \A j \in 1..(i - 1) : Cum(pool, j) <= r
              /\ pool[i].count # 0
      /\ \A i \in 1..Len(pool) :
           Cardinality({r \in 0..(Total(pool) - 1) : PickIndex(pool, r) = i})
             = pool[i].count

\* As many draws completed since the mount or reset as the starting counts
\* add up to, with no edit since.
Exhausted == ~session.edited /\ session.draws = SumOfInitial(blocks)

C4_CountWithinStart ==
  \A i \in Ids : 0 <= blocks[i].count /\ blocks[i].count <= blocks[i].initial

\* C5: a reset leaves every category with remainingCount = startingCount =
\* the saved baseline of its id, clears selected and started, and a second
\* reset right after it changes nothing.
C5_Reset ==
  [][lastOp'.op = "handleReset" =>
       /\ \A i \in Ids :
            /\ blocks'[i].id = savedConfig'[i].id
            /\ blocks'[i].count = savedConfig'[i].initial
            /\ blocks'[i].initial = savedConfig'[i].initial
       /\ selected' = 0
       /\ hasStarted' = FALSE
       /\ handleResetBlocks(savedConfig') = blocks']_vars

\* A reset in the middle of a session whose baseline was edited.
C5_Witness ==
  /\ lastOp.op = "handleReset"
  /\ savedConfig # DEFAULT_INITIAL
  /\ session = FreshSession

\* The value the claim gives a built-in entry d over the persisted items.
CoercibleNonNegative(v) == v.t \in {"number", "numeric-string"} /\ v.n >= 0
ClaimedInitial(items, d) ==
  LET k == FindIndex(items, d.id)
  IN IF k # 0 /\ CoercibleNonNegative(items[k].initial)
     THEN items[k].initial.n ELSE d.initial

\* C6: from a persisted array of objects the load yields the built-in ids
\* in built-in order, each with the persisted value when that is a
\* coercible non-negative number (0 included), else with the default.
C6_Reconciliation ==
  (/\ lastOp.op = "mount"
   /\ storage.kind = "array"
   /\ \A k \in 1..Len(storage.items) : storage.items[k].kind = "object")
    => /\ Len(savedConfig) = NumBlocks
       /\ \A i \in Ids :
            /\ savedConfig[i].id = DEFAULT_INITIAL[i].id
            /\ savedConfig[i].initial =
                 ClaimedInitial(storage.items, DEFAULT_INITIAL[i])

\* C7: once an edit is saved, a load of the storage (now, or at the mount
\* after a restart) returns the edited value for the edited id and the
\* values saved before for the others: the starting counts the session holds.
C7_SaveLoadRoundTrip ==
  lastOp.op = "onSave" =>
    \A i \in Ids : loadSavedConfig(storage)[i].initial = savedConfig[i].initial

\* C8: when exactly one category has remainingCount > 0, a draw request (a
\* click on the Mulai or Acak button the render offers) picks it in the same
\* step, selects and decrements it, and never sets animating.
C8_SingleFastPath ==
  [][(/\ DrawRequested
      /\ MulaiRendered \/ AcakRendered
      /\ getSingleRemainingBlock(blocks) # 0) =>
       LET b == getSingleRemainingBlock(blocks)
       IN /\ selected' = b
          /\ blocks'[b].count = blocks[b].count - 1
          /\ ~isAnimating'
          /\ animation'.status # "pending"]_vars

\* Exactly one decrement: one category is 1 lower, the rest as before.
OneDecrement ==
  \E i \in Ids :
    /\ blocks'[i].count = blocks[i].count - 1
    /\ \A j \in Ids \ {i} : blocks'[j].count = blocks[j].count

\* C9: within a cycle no tick before the final one changes a remainingCount,
\* and the final tick makes exactly one decrement as animating becomes false.
C9_DecrementAtCompletion ==
  [][/\ lastOp'.out \in {"cycling", "tick"} =>
          /\ \A i \in Ids : blocks'[i].count = blocks[i].count
          /\ isAnimating'
     /\ (lastOp'.op = "animate" /\ lastOp'.out # "tick") =>
          /\ OneDecrement
          /\ isAnimating /\ ~isAnimating']_vars

\* C10: after a teardown in the middle of a cycle no tick is pending and
\* every remainingCount is what it was when the cycle started.
C10_CancellationSafety ==
  (pc = "unmounted" /\ isAnimating) =>
    /\ animation.status = "cancelled"
    /\ \A i \in Ids : blocks[i].count = animation.blocks[i].count

CycleStarts == lastOp'.out = "cycling"
\* C11: a click on Mulai or Acak made while a reveal cycle is animating changes
\* nothing, a cycle is only ever started when none is in flight, and while the
\* widget is mounted a cycle is in flight exactly when isAnimating is set.
C11_ConcurrencyGuard ==
  [][/\ (DrawRequested /\ isAnimating) =>
          UNCHANGED <<blocks, selected, hasStarted, isAnimating, animation>>
     /\ CycleStarts => (~isAnimating /\ animation.status # "pending")
     /\ pc = "mounted" => (isAnimating <=> animation.status = "pending")]_vars
C11_Witness ==
  /\ lastOp = Op("handleMulai", "noop")
  /\ isAnimating /\ animation.status = "pending" /\ totalRemaining > 0

\* C12: a click on Reset made while a reveal cycle is animating leaves the
\* pool, the selection and the started flag as they were.
C12_ResetWhileAnimating ==
  [][(lastOp'.op = "handleReset" /\ isAnimating) =>
       UNCHANGED <<blocks, selected, hasStarted>>]_vars

EnteredInvalid(value) == IsNaN(value) \/ value.n < 0
\* C13: an edit whose entered text is not a number or is negative leaves the
\* edited category's starting count at 0 or at the value it had before.
C13_InvalidInput ==
  [][(lastOp'.op = "onSave" /\ EnteredInvalid(lastOp'.value)) =>
       LET i == lastOp'.id
       IN \/ blocks'[i].initial = 0
          \/ blocks'[i].initial = blocks[i].initial]_vars

IllFormedEntry(e) ==
  \/ e.kind # "object"
  \/ IsNaN(e.initial)
  \/ e.initial.t = "null"
NothingUsable(stored) ==
  \/ stored.kind # "array"
  \/ \A k \in 1..Len(stored.items) : IllFormedEntry(stored.items[k])
\* C14: when the stored value is absent, unparseable, not an array, or an
\* array none of whose entries is a well-formed object, the load yields the
\* built-in default list.
C14_MalformedStorage ==
  (lastOp.op = "mount" /\ NothingUsable(storage)) =>
    /\ savedConfig = DEFAULT_INITIAL
    /\ blocks = BlocksOf(DEFAULT_INITIAL)
C14_Witness ==
  /\ lastOp.op = "mount" /\ savedConfig = DEFAULT_INITIAL
  /\ storage.kind = "array" /\ Len(storage.items) = MaxStored
  /\ \E k \in 1..Len(storage.items) : storage.items[k].kind = "null"
  /\ \E k \in 1..Len(storage.items) :
       /\ storage.items[k].kind = "object"
       /\ storage.items[k].id \in Ids
       /\ IsNaN(storage.items[k].initial)

\* C15: an edit of category id to the value v sets both the starting and the
\* remaining count of id to v in the same step, leaves every other category
\* as it was, and a reset that follows restores id to v.
C15_EditEffect ==
  [][lastOp'.op = "onSave" =>
       LET id == lastOp'.id
           v == EditorNumber(lastOp'.value)
       IN /\ blocks'[id].initial = v
          /\ blocks'[id].count = v
          /\ \A j \in Ids \ {id} : blocks'[j] = blocks[j]
          /\ handleResetBlocks(savedConfig')[id].count = v
          /\ handleResetBlocks(savedConfig')[id].initial = v]_vars
C15_Witness ==
  /\ lastOp.op = "onSave" /\ lastOp.value = JsNumericString(0)
  /\ blocks[lastOp.id].count = 0 /\ blocks[lastOp.id].initial = 0
  /\ \E j \in Ids \ {lastOp.id} : blocks[j].count > 0

CycleInFlight == isAnimating /\ pc = "mounted"
CycleDrew == ~isAnimating /\ lastOp = Op("animate", "final")
\* C16: once a reveal cycle is animating, and unless the widget is torn down,
\* the cycle eventually makes its draw and the animating flag is cleared.
C16_CycleTerminates == CycleInFlight ~> (CycleDrew \/ pc # "mounted")
C16_Witness ==
  /\ CycleDrew /\ pc = "mounted"
  /\ \E i \in Ids : blocks[i].count < blocks[i].initial

WalkFindsEntry(pool) ==
  \A r \in 0..(Total(pool) - 1) : \E i \in 1..Len(pool) : r < Cum(pool, i)
\* C17: the category a completed draw returns, also when the cycle started
\* from an earlier list, has a remaining count of at least 1 in the live pool
\* just before the decrement, the total remaining drops by exactly 1, and the
\* cumulative walk always finds its entry without the fallback.
C17_DrawFromLivePool ==
  [][/\ DrawCompletes =>
          /\ blocks[selected'].count >= 1
          /\ Total(blocks') = Total(blocks) - 1
     /\ \A pool \in PoolsToDrawFrom : WalkFindsEntry(pool)]_vars

\* C18: while the session has not started, no category is selected.
C18_NoSelectionBeforeStart == ~hasStarted => selected = 0

\* C19: in every state the saved configuration and the pool hold the same
\* ids with the same starting counts.
C19_SavedMatchesPool ==
  /\ Len(savedConfig) = Len(blocks)
  /\ \A i \in Ids :
       /\ savedConfig[i].id = blocks[i].id
       /\ savedConfig[i].initial = blocks[i].initial
C19_Witness ==
  /\ lastOp.op = "handleReset" /\ ~Constructed
  /\ \E i \in Ids : savedConfig[i].initial = 0
  /\ \E i \in Ids : savedConfig[i].initial = DefaultInitial

ResetToBaseline ==
  /\ lastOp'.op = "handleReset"
  /\ \A i \in Ids : blocks'[i].count = blocks[i].initial
\* C20: in a step of the mounted widget taken while the session is started,
\* no starting count changes, and the remaining counts change only by the
\* decrement of a completed draw or by a reset to the starting counts.
C20_NoEditAfterStart ==
  [][(hasStarted /\ pc = "mounted") =>
       /\ \A i \in Ids : blocks'[i].initial = blocks[i].initial
       /\ \/ \A i \in Ids : blocks'[i].count = blocks[i].count
          \/ DrawCompletes /\ blocks' = Decrement(blocks, selected')
          \/ ResetToBaseline]_vars
C20_Witness ==
  /\ hasStarted /\ pc = "mounted" /\ lastOp = Op("animate", "final")
  /\ session.edited
====
